---- MODULE Spec2Model ----
(***************************************************************************)
(* NERClassifier (lbnlp/nlp/ner.py): the document tagging pipeline and the *)
(* life cycle of one classifier instance.                                  *)
(*                                                                         *)
(* The trained model, the tokenizer/processor and the normalizer are       *)
(* imported packages.  What they return is not decided by this file, so    *)
(* the model draws it from bounded sets: a raw sentence is represented by  *)
(* the two token sequences the processor returns for it, a gateway by the  *)
(* tags it answers and by how it misbehaves, and the normalizer's results  *)
(* are kept as uninterpreted terms.                                        *)
(***************************************************************************)
EXTENDS Integers, Sequences, FiniteSets, TLC

\* Bounds of the model.
MaxTokens == 2      \* tokens per tag_sequence call / per call's documents
MaxDocs == 2        \* documents per batch
LifeTokens == 1     \* tokens per call in the life-cycle specification
MaxCloses == 2      \* close_session calls in one run

VARIABLES
    env,         \* TF_SERVING_URL in the process environment (line 29)
    api_url,     \* self.api_url
    model,       \* the class of self.model, the variant in use (lines 32-38)
    closeCalls,  \* how often close_session reached self.model.close_session()
    op,          \* the operation that ran last, "idle" once its result is dropped
    args,        \* its argument
    ext,         \* how the gateway behaved during it
    ret,         \* its outcome: returned with a value, or raised
    calls        \* the calls it made on self.model, in order

vars == <<env, api_url, model, closeCalls, op, args, ext, ret, calls>>

None == "None"
NUM == "<nUm>"
\* os.environ.get: unset, set to the empty string, set to an address
EnvValues == {None, "", "http://tf-serving"}
PhTokens == {NUM, "fe"}
Tokens == {NUM, "fe", "7"}
Tags == {"O", "B-MAT"}

Min(a, b) == IF a <= b THEN a ELSE b
Range(s) == {s[i] : i \in 1..Len(s)}

TokSeqs(n) == UNION {[1..k -> Tokens] : k \in 0..n}

(***************************************************************************)
(* Documents.  processor.process is external: a raw sentence carries the   *)
(* numeric-placeholder sequence (ph) and the numeric-preserved sequence    *)
(* (num) the two process calls return for it.  The preserved track is the  *)
(* placeholder track with the numeral back, and the two passes may drift:  *)
(* the preserved pass may yield one token less or one token more.          *)
(***************************************************************************)
Drifts == {"same", "short", "long"}

Restore(p) == [i \in 1..Len(p) |-> IF p[i] = NUM THEN "7" ELSE p[i]]

NumTrack(p, d) ==
    CASE d = "same" -> Restore(p)
      [] d = "short" -> SubSeq(Restore(p), 1, Len(p) - 1)
      [] d = "long" -> Append(Restore(p), "7")

RawSents(n) == {[ph |-> p, num |-> NumTrack(p, d)] : p \in [1..n -> PhTokens], d \in Drifts}

RECURSIVE SentSeqs(_)
SentSeqs(n) ==
    IF n = 0 THEN {<<>>}
    ELSE UNION {{<<s>> \o r : s \in RawSents(k), r \in SentSeqs(n - k)} : k \in 1..n}

\* documents whose sentences hold exactly n tokens
DocsOf(n) == {[sents |-> ss] : ss \in SentSeqs(n)}

DocsUpTo(n) == UNION {DocsOf(k) : k \in 0..n}

RECURSIVE BatchesOf(_, _)
BatchesOf(m, n) ==
    IF m = 0 THEN {<<>>}
    ELSE UNION {{<<d>> \o b : d \in DocsOf(k), b \in BatchesOf(m - 1, n - k)} : k \in 0..n}

Batches(n) == UNION {BatchesOf(m, n) : m \in 0..MaxDocs}

\* processor.tokenize(text): the sentences of the document
Tokenize(text) == text.sents

\* processor.process(sent, convert_num)[0]
Process(sent, convert_num) == IF convert_num THEN sent.ph ELSE sent.num

(***************************************************************************)
(* The gateway (self.model.predict).  Deterministic within one call: the   *)
(* tag of a token is fixed by tagOf; the answer may be one tag short or    *)
(* one tag long (delta), and predict raises on every sentence holding      *)
(* failTok.                                                                *)
(***************************************************************************)
TagMaps == {m \in [{"num", "word"} -> Tags] : m.num /= m.word}

Faults == {[delta |-> 0, failTok |-> None], [delta |-> -1, failTok |-> None],
           [delta |-> 1, failTok |-> None], [delta |-> 0, failTok |-> NUM],
           [delta |-> 0, failTok |-> "fe"]}

Gateways == {[tagOf |-> t, delta |-> f.delta, failTok |-> f.failTok] : t \in TagMaps, f \in Faults}

Quiet == [tagOf |-> [num |-> "O", word |-> "O"], delta |-> 0, failTok |-> None]

TagFor(gw, token) == IF token = NUM THEN gw.tagOf.num ELSE gw.tagOf.word

Predict(gw, sent) ==
    IF gw.failTok \in Range(sent)
    THEN [ok |-> FALSE, tags |-> <<>>]
    ELSE [ok |-> TRUE,
          tags |-> [i \in 1..(IF Len(sent) + gw.delta < 0 THEN 0 ELSE Len(sent) + gw.delta) |->
                       IF i <= Len(sent) THEN TagFor(gw, sent[i]) ELSE "O"]]

\* one entry of the log of calls made on self.model
Call(method, arg, ok) == [method |-> method, arg |-> arg, ok |-> ok]

Returned(value, log) == [status |-> "returned", value |-> value, calls |-> log]
Raised(log) == [status |-> "raised", value |-> <<>>, calls |-> log]

(***************************************************************************)
(* tag_sequence                                                            *)
(***************************************************************************)
\* [(token, tag) for token, tag in zip(sequence, tags)]
ZipTags(sequence, tags) ==
    [i \in 1..Min(Len(sequence), Len(tags)) |-> <<sequence[i], tags[i]>>]

TagSequence(gw, sequence) ==
    LET r == Predict(gw, sequence)
        log == <<Call("predict", sequence, r.ok)>>
    IN  IF r.ok THEN Returned(ZipTags(sequence, r.tags), log) ELSE Raised(log)

(***************************************************************************)
(* _preprocess and tag_doc                                                 *)
(***************************************************************************)
Preprocess(text) ==
    LET sents == Tokenize(text)
    IN  [processed_sents |-> [k \in 1..Len(sents) |-> Process(sents[k], TRUE)],
         processed_sents_num |-> [k \in 1..Len(sents) |-> Process(sents[k], FALSE)]]

\* as TagSent, with the numeral never put back
TagSentKeepsPlaceholder(sent, sent_num, tags) ==
    [i \in 1..Min(Len(sent), Min(Len(sent_num), Len(tags))) |-> <<sent[i], tags[i]>>]

\* the list comprehension of lines 70-71 and 118-119
TagSent(sent, sent_num, tags) ==
    [i \in 1..Min(Len(sent), Min(Len(sent_num), Len(tags))) |->
        IF sent[i] /= NUM THEN <<sent[i], tags[i]>> ELSE <<sent_num[i], tags[i]>>]

\* as TagDocLoop, with a failing predict swallowed: the sentence gets no tags
RECURSIVE TagDocLoopSwallows(_, _, _, _, _, _)
TagDocLoopSwallows(gw, sents, sents_num, k, tagged_doc, log) ==
    IF k > Min(Len(sents), Len(sents_num))
    THEN Returned(tagged_doc, log)
    ELSE LET r == Predict(gw, sents[k])
             log2 == Append(log, Call("predict", sents[k], r.ok))
         IN  TagDocLoopSwallows(gw, sents, sents_num, k + 1,
                                Append(tagged_doc, TagSent(sents[k], sents_num[k], r.tags)), log2)

RECURSIVE TagDocLoop(_, _, _, _, _, _)
TagDocLoop(gw, sents, sents_num, k, tagged_doc, log) ==
    IF k > Min(Len(sents), Len(sents_num))
    THEN Returned(tagged_doc, log)
    ELSE LET r == Predict(gw, sents[k])
             log2 == Append(log, Call("predict", sents[k], r.ok))
         IN  IF ~r.ok
             THEN Raised(log2)
             ELSE TagDocLoop(gw, sents, sents_num, k + 1,
                             Append(tagged_doc, TagSent(sents[k], sents_num[k], r.tags)), log2)

TagDoc(gw, doc) ==
    LET p == Preprocess(doc)
    IN  TagDocLoop(gw, p.processed_sents, p.processed_sents_num, 1, <<>>, <<>>)

(***************************************************************************)
(* tag_docs: its own copy of the sentence loop, inside the document loop   *)
(***************************************************************************)
RECURSIVE TagDocsInner(_, _, _, _, _, _)
TagDocsInner(gw, sents, sents_num, k, tagged_doc, log) ==
    IF k > Min(Len(sents), Len(sents_num))
    THEN Returned(tagged_doc, log)
    ELSE LET r == Predict(gw, sents[k])
             log2 == Append(log, Call("predict", sents[k], r.ok))
         IN  IF ~r.ok
             THEN Raised(log2)
             ELSE TagDocsInner(gw, sents, sents_num, k + 1,
                               Append(tagged_doc, TagSent(sents[k], sents_num[k], r.tags)), log2)

\* as TagDocsLoop, with tagged_doc not started afresh for each document
RECURSIVE TagDocsLoopShared(_, _, _, _, _)
TagDocsLoopShared(gw, docs, d, tagged_docs, log) ==
    IF d > Len(docs)
    THEN Returned(tagged_docs, log)
    ELSE LET p == Preprocess(docs[d])
             carried == IF d = 1 THEN <<>> ELSE tagged_docs[d - 1]
             r == TagDocsInner(gw, p.processed_sents, p.processed_sents_num, 1, carried, log)
         IN  IF r.status = "raised"
             THEN r
             ELSE TagDocsLoopShared(gw, docs, d + 1, Append(tagged_docs, r.value), r.calls)

RECURSIVE TagDocsLoop(_, _, _, _, _)
TagDocsLoop(gw, docs, d, tagged_docs, log) ==
    IF d > Len(docs)
    THEN Returned(tagged_docs, log)
    ELSE LET p == Preprocess(docs[d])
             r == TagDocsInner(gw, p.processed_sents, p.processed_sents_num, 1, <<>>, log)
         IN  IF r.status = "raised"
             THEN r
             ELSE TagDocsLoop(gw, docs, d + 1, Append(tagged_docs, r.value), r.calls)

TagDocs(gw, docs) == TagDocsLoop(gw, docs, 1, <<>>, <<>>)

(***************************************************************************)
(* The normalizer is external: its results are uninterpreted terms.        *)
(***************************************************************************)
ConcatenateEnts(tagged_doc) == [fn |-> "_concatenate_ents", of |-> tagged_doc]

Normalize(docs, tagged_docs) == [fn |-> "normalize", docs |-> docs, tagged |-> tagged_docs]

Item0(list) == [fn |-> "item0", of |-> list]

AsConcatenated(gw, docs) ==
    LET r == TagDocs(gw, docs)
    IN  IF r.status = "raised"
        THEN r
        ELSE Returned([i \in 1..Len(r.value) |-> ConcatenateEnts(r.value[i])], r.calls)

AsNormalized(gw, docs) ==
    LET r == TagDocs(gw, docs)
    IN  IF r.status = "raised" THEN r ELSE Returned(Normalize(docs, r.value), r.calls)

(***************************************************************************)
(* State machine.  One operation runs at a time (the code is synchronous); *)
(* an operation is one step, and its result stays visible until the caller *)
(* drops it.                                                               *)
(***************************************************************************)
\* __init__: the variant is chosen from the environment value read at line 29
SelectModel(url) == IF url /= None THEN "NERServingModel" ELSE "NERModel"

Init ==
    /\ env \in EnvValues
    /\ api_url = env
    /\ model = SelectModel(env)
    /\ closeCalls = 0
    /\ op = "idle"
    /\ args = <<>>
    /\ ext = Quiet
    /\ ret = [status |-> "none", value |-> <<>>]
    /\ calls = <<>>

Finish(name, a, gw, r) ==
    /\ op' = name
    /\ args' = a
    /\ ext' = gw
    /\ ret' = [status |-> r.status, value |-> r.value]
    /\ calls' = r.calls
    /\ UNCHANGED <<env, api_url, model, closeCalls>>

tag_sequence(n) ==
    /\ op = "idle"
    /\ \E sequence \in TokSeqs(n), gw \in Gateways :
          Finish("tag_sequence", sequence, gw, TagSequence(gw, sequence))

tag_doc(n) ==
    /\ op = "idle"
    /\ \E doc \in DocsUpTo(n), gw \in Gateways :
          Finish("tag_doc", doc, gw, TagDoc(gw, doc))

tag_docs(n) ==
    /\ op = "idle"
    /\ \E docs \in Batches(n), gw \in Gateways :
          Finish("tag_docs", docs, gw, TagDocs(gw, docs))

as_iob(n) ==
    /\ op = "idle"
    /\ \E docs \in Batches(n), gw \in Gateways :
          Finish("as_iob", docs, gw, TagDocs(gw, docs))

as_concatenated(n) ==
    /\ op = "idle"
    /\ \E docs \in Batches(n), gw \in Gateways :
          Finish("as_concatenated", docs, gw, AsConcatenated(gw, docs))

as_normalized(n) ==
    /\ op = "idle"
    /\ \E docs \in Batches(n), gw \in Gateways :
          Finish("as_normalized", docs, gw, AsNormalized(gw, docs))

\* the caller drops the result: nothing of a call is kept on the instance
Discard ==
    /\ op /= "idle"
    /\ op' = "idle"
    /\ args' = <<>>
    /\ ext' = Quiet
    /\ ret' = [status |-> "none", value |-> <<>>]
    /\ calls' = <<>>
    /\ UNCHANGED <<env, api_url, model, closeCalls>>

(***************************************************************************)
(* Operations that do not call predict, and the environment.               *)
(***************************************************************************)
\* tagged documents a caller may hold: results of tag_doc
TaggedDocs(n) ==
    {TagDoc(gw, doc).value : gw \in {g \in Gateways : g.failTok = None}, doc \in DocsUpTo(n)}

concatenate_entities(n) ==
    /\ op = "idle"
    /\ \E tagged_doc \in TaggedDocs(n) :
          Finish("concatenate_entities", tagged_doc, Quiet,
                 Returned(ConcatenateEnts(tagged_doc), <<>>))

normalize_entities(n) ==
    /\ op = "idle"
    /\ \E doc \in DocsUpTo(n), tagged_doc \in TaggedDocs(n) :
          Finish("normalize_entities", <<doc, tagged_doc>>, Quiet,
                 Returned(Item0(Normalize(<<doc>>, <<tagged_doc>>)), <<>>))

\* as save_model, with a local model made afresh for the export
save_model_rebuilds ==
    /\ op = "idle"
    /\ op' = "save_model"
    /\ args' = "export_dir"
    /\ ext' = Quiet
    /\ ret' = [status |-> "returned", value |-> <<>>]
    /\ calls' = <<Call("build", <<>>, TRUE),
                  Call("restore_session", "model.weights/", TRUE),
                  Call("save_prediction_model", "export_dir", TRUE)>>
    /\ model' = "NERModel"
    /\ UNCHANGED <<env, api_url, closeCalls>>

\* build, restore_session and save_prediction_model are the model's own:
\* the first of them may raise (the serving model is not a trainable one)
save_model ==
    /\ op = "idle"
    /\ \E built \in BOOLEAN :
          Finish("save_model", "export_dir", Quiet,
                 IF built
                 THEN Returned(<<>>, <<Call("build", <<>>, TRUE),
                                       Call("restore_session", "model.weights/", TRUE),
                                       Call("save_prediction_model", "export_dir", TRUE)>>)
                 ELSE Raised(<<Call("build", <<>>, FALSE)>>))

\* every call is forwarded to the model; the instance keeps no closed flag
close_session ==
    /\ op = "idle"
    /\ closeCalls < MaxCloses
    /\ closeCalls' = closeCalls + 1
    /\ op' = "close_session"
    /\ args' = <<>>
    /\ ext' = Quiet
    /\ ret' = [status |-> "returned", value |-> <<>>]
    /\ calls' = <<Call("close_session", <<>>, TRUE)>>
    /\ UNCHANGED <<env, api_url, model>>

\* TF_SERVING_URL is set or unset in the process environment after construction
EnvChange ==
    /\ \E v \in EnvValues \ {env} : env' = v
    /\ UNCHANGED <<api_url, model, closeCalls, op, args, ext, ret, calls>>

Next ==
    \/ tag_sequence(MaxTokens)
    \/ tag_doc(MaxTokens)
    \/ tag_docs(MaxTokens)
    \/ as_iob(MaxTokens)
    \/ as_concatenated(MaxTokens)
    \/ as_normalized(MaxTokens)
    \/ Discard

\* the tagging pipeline on a fresh instance
Spec == Init /\ [][Next]_vars

LifeNext ==
    \/ tag_sequence(LifeTokens)
    \/ tag_doc(LifeTokens)
    \/ tag_docs(LifeTokens)
    \/ as_iob(LifeTokens)
    \/ as_concatenated(LifeTokens)
    \/ as_normalized(LifeTokens)
    \/ concatenate_entities(LifeTokens)
    \/ normalize_entities(LifeTokens)
    \/ save_model
    \/ close_session
    \/ EnvChange
    \/ Discard

\* the whole public surface over the life of one instance
LifeSpec == Init /\ [][LifeNext]_vars

(***************************************************************************)
(* Properties                                                              *)
(***************************************************************************)
Numerals == {"7"}
BatchOps == {"tag_docs", "as_iob", "as_concatenated", "as_normalized"}

\* the raw sentences of the documents of the running call
SentsOfCall ==
    IF op = "tag_doc" THEN Range(Tokenize(args))
    ELSE IF op \in BatchOps THEN UNION {Range(Tokenize(args[d])) : d \in 1..Len(args)}
    ELSE {}

RECURSIVE SumLen(_)
SumLen(seqs) == IF seqs = <<>> THEN 0 ELSE Len(Head(seqs)) + SumLen(Tail(seqs))

\* C1: tag_sequence returns exactly len(S) (token, tag) pairs, whatever tag
\* sequence the gateway's predict answered.
C1_LengthUnconditional ==
    (op = "tag_sequence" /\ ret.status = "returned") => Len(ret.value) = Len(args)

\* C2: in every tagged sentence of tag_doc, at each index i the surface token
\* is the numeric-preserved token where the placeholder token is the sentinel
\* and the placeholder token otherwise; the sentinel is never the surface
\* token where a numeral occurred; the tag is the one predict gave for i.
C2_NumeralRestored ==
    (op = "tag_doc" /\ ret.status = "returned") =>
        \A k \in 1..Len(ret.value) :
            LET sent == Process(Tokenize(args)[k], TRUE)
                sent_num == Process(Tokenize(args)[k], FALSE)
                tags == Predict(ext, sent).tags
            IN  \A i \in 1..Len(ret.value[k]) :
                    /\ ret.value[k][i][1] = (IF sent[i] = NUM THEN sent_num[i] ELSE sent[i])
                    /\ sent_num[i] \in Numerals => ret.value[k][i][1] /= NUM
                    /\ ret.value[k][i][2] = tags[i]

C2_Witness ==
    /\ op = "tag_doc"
    /\ ret.status = "returned"
    /\ \E k \in 1..Len(ret.value) : \E i \in 1..Len(ret.value[k]) :
          /\ Process(Tokenize(args)[k], TRUE)[i] = NUM
          /\ ret.value[k][i][1] = "7"
          /\ \E j \in 1..Len(ret.value[k]) : ret.value[k][j][2] /= ret.value[k][i][2]

\* C3: with a deterministic gateway tag_docs(docs) returns one tagged document
\* per document, in input order, and the i-th is tag_doc(docs[i]), whatever
\* the other documents of the batch are; it raises only where a tag_doc does.
C3_BatchIsPerDocument ==
    op = "tag_docs" =>
        /\ ret.status = "returned" =>
              /\ Len(ret.value) = Len(args)
              /\ \A i \in 1..Len(args) :
                    /\ TagDoc(ext, args[i]).status = "returned"
                    /\ ret.value[i] = TagDoc(ext, args[i]).value
        /\ ret.status = "raised" =>
              \E i \in 1..Len(args) : TagDoc(ext, args[i]).status = "raised"

C3_Witness ==
    /\ op = "tag_docs"
    /\ ret.status = "returned"
    /\ Len(args) = 2
    /\ args[1] /= args[2]
    /\ \A i \in 1..2 : ret.value[i] /= <<>> /\ ret.value[i][1] /= <<>>
    /\ ret.value[1] /= ret.value[2]

\* C4: if predict fails on any sentence of any document, tag_doc, tag_docs,
\* as_iob, as_concatenated and as_normalized end in a failure handed to the
\* caller, never in a result.
C4_FailurePropagates ==
    (\E s \in SentsOfCall : ~Predict(ext, Process(s, TRUE)).ok) => ret.status = "raised"

C4_Witness ==
    /\ op \in BatchOps
    /\ ret.status = "raised"
    /\ Len(args) = 2
    /\ Len(calls) = 2
    /\ calls[1].ok
    /\ ~calls[2].ok

\* C5: if the two token tracks of some sentence differ in length, tag_doc and
\* tag_docs abort with an error and return no tagged sentence built from the
\* misaligned pair.
C5_MisalignmentAborts ==
    (/\ op \in {"tag_doc", "tag_docs"}
     /\ \E s \in SentsOfCall : Len(Process(s, TRUE)) /= Len(Process(s, FALSE)))
        => ret.status = "raised"

\* C6: the Remote variant is selected exactly when TF_SERVING_URL is set at
\* construction, and no operation and no later change of the environment
\* changes the variant (or the address) the instance uses.
C6_VariantFixed ==
    /\ (model = "NERServingModel") <=> (env /= None)
    /\ [][model' = model /\ api_url' = api_url]_vars

C6_Witness ==
    /\ env /= api_url
    /\ closeCalls > 0
    /\ op = "save_model"
    /\ ret.status = "returned"
    /\ model = "NERServingModel"

\* C7: close_session takes effect at most once, and once it has been called
\* no tagging operation reaches the gateway's predict.
C7_NoPredictAfterClose ==
    /\ closeCalls <= 1
    /\ closeCalls >= 1 => \A j \in 1..Len(calls) : calls[j].method /= "predict"

\* C8: tag_doc(D) holds one tagged sentence per sentence of D, in order;
\* predict is called once per sentence, in order, on its placeholder track;
\* the tagged tokens are as many as the processed tokens of D.
C8_SentencesAndTokens ==
    (op = "tag_doc" /\ ret.status = "returned") =>
        LET processed_sents == Preprocess(args).processed_sents
        IN  /\ Len(ret.value) = Len(Tokenize(args))
            /\ Len(calls) = Len(processed_sents)
            /\ \A k \in 1..Len(calls) :
                  calls[k].method = "predict" /\ calls[k].arg = processed_sents[k]
            /\ SumLen(ret.value) = SumLen(processed_sents)

====
